---- MODULE Spec2Model ----
(***************************************************************************)
(* Shoe Store API (src/main.py, src/schemas.py): the cart, checkout and    *)
(* review handlers over the document collections cart, order, review,      *)
(* shoeproduct and promocode.                                              *)
(*                                                                         *)
(* A request is served by one of the handler slots of Procs.  Every        *)
(* datastore call of a handler (find_one, insert, update_one, delete_one)  *)
(* is one atomic step; the computation between two calls belongs to the    *)
(* step of the call before it.  Spec interleaves the steps of the slots,   *)
(* SpecSeq runs every request to completion before the next one starts,    *)
(* SpecReview interleaves create_review requests.                          *)
(*                                                                         *)
(* Money is fixed point: prices, totals and promocode values are counted   *)
(* in hundredths (89.99 is 8999, a value of 10 is 1000).  Rating averages  *)
(* are counted in hundredths too (3.5 is 350).                             *)
(***************************************************************************)
EXTENDS Integers, Sequences, FiniteSets, TLC

VARIABLES
    cart,         \* db["cart"]: the cart documents, in natural order
    order,        \* db["order"]: the order documents; an order's _id is its index
    review,       \* db["review"]: the review documents
    shoeproduct,  \* db["shoeproduct"]: product id -> its rating summary
    nextCartId,   \* the _id the next inserted cart gets
    pc,           \* slot -> the datastore call its handler makes next
    req,          \* slot -> the request it serves: payload, locals, response
    started,      \* requests started so far
    addSum        \* history of SpecSeq: owner, key -> quantities added in a row

vars == <<cart, order, review, shoeproduct, nextCartId, pc, req, started, addSum>>

(***************************************************************************)
(* Bounds of the model.                                                    *)
(***************************************************************************)
\* requests started in one behaviour of Spec
MaxReqs == 4
\* requests started in one behaviour of SpecSeq
MaxSeqReqs == 4
\* requests started in one behaviour of SpecReview
MaxReviews == 4

\* handler slots of Spec and SpecReview: requests in flight at the same time
Procs == {"a", "b"}
\* the one slot of SpecSeq
SeqProc == "s"
AllProcs == Procs \cup {SeqProc}

(***************************************************************************)
(* Inputs.                                                                 *)
(***************************************************************************)
\* payload.promo_code is None
NoCode == "<none>"
Owners == {<<"user", "u1">>, <<"session", "u1">>}
\* (product_id, size) pairs of the line items sent; "zz" is no ObjectId
Keys == {<<"p1", 8>>, <<"p1", 9>>, <<"p2", 8>>, <<"zz", 8>>}
ValidKeys == {<<"p1", 8>>, <<"p1", 9>>, <<"p2", 8>>}
Qtys == {-1, 2}
\* the price the client sends for a product, in hundredths
PriceOf(pid) == IF pid = "p1" THEN 5000 ELSE 8999
ItemsOf(keys, qtys) ==
    {[product_id |-> k[1], size |-> k[2], price |-> PriceOf(k[1]), qty |-> q] :
        k \in keys, q \in qtys}
CartItems == ItemsOf(Keys, Qtys)
\* the inputs of Spec, where two requests interleave
ConcKeys == {<<"p1", 8>>, <<"p1", 9>>}
ConcItems == ItemsOf(ConcKeys, {1})
ConcPromos == {NoCode, "PCT10"}
PromoInputs == {NoCode, "", "PCT10", "AMT20", "AMT150", "nope"}
\* the catalog; "p9" is a well-formed id of no product
Catalog == {"p1"}
ReviewPids == {"p1", "p9", "zz"}
Ratings == {0, 2, 3, 4, 5}

NoDoc == [_id |-> 0, owner |-> <<"", "">>, items |-> <<>>]
NoItem == [product_id |-> "", size |-> 0, price |-> 0, qty |-> 0]
NoOwner == <<"", "">>

(***************************************************************************)
(* Helpers.                                                                *)
(***************************************************************************)
\* ObjectId(s) succeeds
ValidObjectId(s) == s \in {"p1", "p2", "p9"}

Max(a, b) == IF a >= b THEN a ELSE b

\* the integers nearest to n/d (d > 0): both neighbours at an exact tie, where
\* the binary value of the float decides which way round() goes
RoundDivSet(n, d) ==
    LET f == n \div d
        r == n % d
    IN  IF 2 * r < d THEN {f}
        ELSE IF 2 * r > d THEN {f + 1}
        ELSE {f, f + 1}

RECURSIVE SumSeq(_)
SumSeq(s) == IF s = <<>> THEN 0 ELSE Head(s) + SumSeq(Tail(s))

\* sum(price * qty for item in items), in hundredths
Subtotal(items) == SumSeq([i \in 1..Len(items) |-> items[i].price * items[i].qty])

Min(S) == CHOOSE i \in S : \A j \in S : i <= j

\* coll without its k-th document
DropAt(coll, k) ==
    [i \in 1..(Len(coll) - 1) |-> IF i < k THEN coll[i] ELSE coll[i + 1]]

\* create_document(collection_name, data): insert-one at the end of the
\* collection; the caller gives the document the _id the datastore generates
CreateDocument(coll, doc) == Append(coll, doc)

\* db["cart"].find_one({"owner_type": ..., "owner_id": ...}): the first cart of
\* the owner in natural order, NoDoc (None) when there is none
FindCartIn(coll, o) ==
    LET hits == {i \in 1..Len(coll) : coll[i].owner = o}
    IN  IF hits = {} THEN NoDoc ELSE coll[Min(hits)]

FindCart(o) == FindCartIn(cart, o)

\* db["cart"].delete_one({"owner_type": ..., "owner_id": ...})
DeleteCartOf(coll, o) ==
    LET hits == {i \in 1..Len(coll) : coll[i].owner = o}
    IN  IF hits = {} THEN coll ELSE DropAt(coll, Min(hits))

\* db["cart"].delete_one({"_id": id})
DeleteCartById(coll, id) ==
    LET hits == {i \in 1..Len(coll) : coll[i]._id = id}
    IN  IF hits = {} THEN coll ELSE DropAt(coll, Min(hits))

\* db["cart"].update_one({"_id": id}, {"$set": {"items": items}})
SetItems(coll, id, items) ==
    [i \in 1..Len(coll) |-> IF coll[i]._id = id THEN [coll[i] EXCEPT !.items = items]
                            ELSE coll[i]]

SameKey(it, pid, size) == it.product_id = pid /\ it.size = size

\* MergeItem with `=` for `+`: the matching line takes the incoming quantity
MergeItemOverwrite(items, item) ==
    LET hits == {i \in 1..Len(items) : SameKey(items[i], item.product_id, item.size)}
    IN  IF hits = {} THEN Append(items, item)
        ELSE [items EXCEPT ![Min(hits)].qty = item.qty]

\* the merge loop of add_to_cart
MergeItem(items, item) ==
    LET hits == {i \in 1..Len(items) : SameKey(items[i], item.product_id, item.size)}
    IN  IF hits = {} THEN Append(items, item)
        ELSE [items EXCEPT ![Min(hits)].qty = items[Min(hits)].qty + item.qty]

\* RemoveItems matching on the product alone
RemoveItemsAnySize(items, pid, size) ==
    SelectSeq(items, LAMBDA it : it.product_id # pid)

\* the list comprehension of remove_from_cart
RemoveItems(items, pid, size) ==
    SelectSeq(items, LAMBDA it : ~SameKey(it, pid, size))

(***************************************************************************)
(* Promo codes.  The handlers only read db["promocode"], so the collection *)
(* is a fixed sequence of documents; value is in hundredths.               *)
(***************************************************************************)
PromoDocs == <<
    [code |-> "PCT10",  discount_type |-> "percentage", value |-> 5000,  active |-> FALSE],
    [code |-> "PCT10",  discount_type |-> "percentage", value |-> 1000,  active |-> TRUE],
    [code |-> "AMT20",  discount_type |-> "amount",     value |-> 2000,  active |-> TRUE],
    [code |-> "AMT150", discount_type |-> "amount",     value |-> 15000, active |-> TRUE],
    [code |-> "",       discount_type |-> "amount",     value |-> 2000,  active |-> TRUE] >>

NoPromo == [code |-> NoCode, discount_type |-> "", value |-> 0, active |-> FALSE]

\* db["promocode"].find_one({"code": code, "active": True})
FindPromo(code) ==
    LET hits == {i \in 1..Len(PromoDocs) : PromoDocs[i].code = code /\ PromoDocs[i].active}
    IN  IF hits = {} THEN NoPromo ELSE PromoDocs[Min(hits)]

\* `if payload.promo_code:` an absent code and the empty string are falsy
Truthy(code) == code # NoCode /\ code # ""

\* the discount of checkout, in 1/1000000: subtotal and value are hundredths,
\* so subtotal * value / 100 is subtotal * value millionths
DiscountE6(code, subtotal) ==
    IF ~Truthy(code) THEN 0
    ELSE LET c == FindPromo(code)
         IN  IF c = NoPromo THEN 0
             ELSE IF c.discount_type = "amount" THEN c.value * 10000
             ELSE subtotal * c.value

\* TotalE6 without the floor at 0
TotalE6NoFloor(code, subtotal) == subtotal * 10000 - DiscountE6(code, subtotal)

\* total = max(0.0, subtotal - discount), in 1/1000000
TotalE6(code, subtotal) == Max(0, subtotal * 10000 - DiscountE6(code, subtotal))

\* round(total, 2), in hundredths
TotalAmounts(code, subtotal) == RoundDivSet(TotalE6(code, subtotal), 10000)

(***************************************************************************)
(* Requests.                                                               *)
(***************************************************************************)
Idle == [kind |-> "none", n |-> 0, owner |-> NoOwner, item |-> NoItem, promo |-> NoCode,
         cart_id |-> 0, items |-> <<>>, total |-> 0, order_id |-> 0, rating |-> 0,
         count |-> 0, status |-> 0]

Free(p) == pc[p] \in {"idle", "done"}

\* a request is taken by the first free slot (the slots are interchangeable)
SlotRank(p) == IF p = "a" THEN 1 ELSE 2
CanBegin(p, lim) ==
    /\ Free(p) /\ started < lim
    /\ \A q \in Procs : (p \in Procs /\ Free(q)) => SlotRank(p) <= SlotRank(q)

NewReq(kind, o) == [Idle EXCEPT !.kind = kind, !.owner = o, !.n = started + 1]

Goto(p, label, r) ==
    /\ pc' = [pc EXCEPT ![p] = label]
    /\ req' = [req EXCEPT ![p] = r]

\* the handler returns (200) or raises HTTPException(status)
Respond(p, r, status) == Goto(p, "done", [r EXCEPT !.status = status])

NoSum == [on |-> FALSE, sum |-> 0]

Init ==
    /\ cart = <<>>
    /\ order = <<>>
    /\ review = <<>>
    /\ shoeproduct = [x \in Catalog |-> [average |-> 0, count |-> 0]]
    /\ nextCartId = 1
    /\ pc = [p \in AllProcs |-> "idle"]
    /\ req = [p \in AllProcs |-> Idle]
    /\ started = 0
    /\ addSum = [o \in Owners |-> [k \in ValidKeys |-> NoSum]]

(***************************************************************************)
(* add_to_cart                                                             *)
(***************************************************************************)
\* Cart(owner_type, owner_id, items=[item]) as create_document inserts it
NewCart(id, o, item) == [_id |-> id, owner |-> o, items |-> <<item>>]

\* the request arrives, the product id is validated and the cart is read; on a
\* found cart the merge loop runs on the copy read
AddFind(p, o, item, lim) ==
    /\ CanBegin(p, lim)
    /\ started' = started + 1
    /\ LET r == [NewReq("add", o) EXCEPT !.item = item]
           c == FindCart(o)
       IN  IF ~ValidObjectId(item.product_id) THEN Respond(p, r, 400)
           ELSE IF c = NoDoc THEN Goto(p, "add_create", r)
           ELSE Goto(p, "add_update",
                     [r EXCEPT !.cart_id = c._id, !.items = MergeItem(c.items, item)])
    /\ UNCHANGED <<cart, order, review, shoeproduct, nextCartId, addSum>>

\* the quantities added in a row for the key, once this add is done
AddedSum(p, o, item, before) ==
    LET k == <<item.product_id, item.size>>
        had == \E i \in 1..Len(before) : SameKey(before[i], k[1], k[2])
    IN  IF p # SeqProc THEN addSum
        ELSE IF addSum[o][k].on
             THEN [addSum EXCEPT ![o][k].sum = @ + item.qty]
        ELSE IF had THEN addSum
        ELSE [addSum EXCEPT ![o][k] = [on |-> TRUE, sum |-> item.qty]]

\* create_document("cart", cart_model)
AddCreate(p) ==
    /\ pc[p] = "add_create"
    /\ cart' = CreateDocument(cart, NewCart(nextCartId, req[p].owner, req[p].item))
    /\ nextCartId' = nextCartId + 1
    /\ addSum' = AddedSum(p, req[p].owner, req[p].item, <<>>)
    /\ Respond(p, [req[p] EXCEPT !.cart_id = nextCartId], 200)
    /\ UNCHANGED <<order, review, shoeproduct, started>>

\* db["cart"].update_one({"_id": cart["_id"]}, {"$set": {"items": items}})
AddUpdate(p) ==
    /\ pc[p] = "add_update"
    /\ cart' = SetItems(cart, req[p].cart_id, req[p].items)
    /\ addSum' = AddedSum(p, req[p].owner, req[p].item, FindCart(req[p].owner).items)
    /\ Respond(p, req[p], 200)
    /\ UNCHANGED <<order, review, shoeproduct, nextCartId, started>>

\* a remove, clear or checkout of the owner ends every row of adds
ResetSum(p, o) == IF p # SeqProc THEN addSum ELSE [addSum EXCEPT ![o] = [k \in ValidKeys |-> NoSum]]

(***************************************************************************)
(* remove_from_cart                                                        *)
(***************************************************************************)
RemFind(p, o, k, lim) ==
    /\ CanBegin(p, lim)
    /\ started' = started + 1
    /\ LET r == [NewReq("remove", o) EXCEPT !.item = [NoItem EXCEPT !.product_id = k[1], !.size = k[2]]]
           c == FindCart(o)
       IN  IF c = NoDoc THEN Respond(p, r, 404)
           ELSE Goto(p, "rem_update",
                     [r EXCEPT !.cart_id = c._id, !.items = RemoveItems(c.items, k[1], k[2])])
    /\ addSum' = ResetSum(p, o)
    /\ UNCHANGED <<cart, order, review, shoeproduct, nextCartId>>

RemUpdate(p) ==
    /\ pc[p] = "rem_update"
    /\ cart' = SetItems(cart, req[p].cart_id, req[p].items)
    /\ Respond(p, req[p], 200)
    /\ UNCHANGED <<order, review, shoeproduct, nextCartId, started, addSum>>

(***************************************************************************)
(* clear_cart, get_cart                                                    *)
(***************************************************************************)
ClearCart(p, o, lim) ==
    /\ CanBegin(p, lim)
    /\ started' = started + 1
    /\ cart' = DeleteCartOf(cart, o)
    /\ Respond(p, NewReq("clear", o), 200)
    /\ addSum' = ResetSum(p, o)
    /\ UNCHANGED <<order, review, shoeproduct, nextCartId>>

\* the body get_cart returns from the collection coll: its items and their total
CartView(coll, o) ==
    LET c == FindCartIn(coll, o)
    IN  IF c = NoDoc THEN [cart_id |-> 0, items |-> <<>>, total |-> 0]
        ELSE [cart_id |-> c._id, items |-> c.items, total |-> Subtotal(c.items)]

GetCart(p, o, lim) ==
    /\ CanBegin(p, lim)
    /\ started' = started + 1
    /\ LET v == CartView(cart, o)
       IN  Respond(p, [NewReq("get", o) EXCEPT !.cart_id = v.cart_id, !.items = v.items,
                                                !.total = v.total], 200)
    /\ UNCHANGED <<cart, order, review, shoeproduct, nextCartId, addSum>>

(***************************************************************************)
(* checkout                                                                *)
(***************************************************************************)
\* Order(items=items, total_amount=round(total, 2), status="processing") with
\* the default payment of the schema; from and by are history: the cart read
\* and the request that made the order
NewOrder(id, items, total, from, by) ==
    [_id |-> id, items |-> items, total_amount |-> total, status |-> "processing",
     payment_status |-> "pending", from |-> from, by |-> by]

\* PaidOrder that confirms the order and leaves its payment pending
PaidOrderUnpaid(doc) == [doc EXCEPT !.status = "confirmed"]

\* {"$set": {"payment": {..., "status": "paid", ...}, "status": "confirmed"}}
PaidOrder(doc) == [doc EXCEPT !.payment_status = "paid", !.status = "confirmed"]

\* EmptyCart without the test of the items
EmptyCartAbsentOnly(c) == c = NoDoc

\* `not cart or not cart.get("items")`
EmptyCart(c) == c = NoDoc \/ c.items = <<>>

\* the request arrives and the cart is read; subtotal, discount (the promocode
\* collection never changes, so its read is part of this step) and total
ChkFind(p, o, promo, lim) ==
    /\ CanBegin(p, lim)
    /\ started' = started + 1
    /\ LET r == [NewReq("checkout", o) EXCEPT !.promo = promo]
           c == FindCart(o)
       IN  IF EmptyCart(c) THEN Respond(p, r, 400)
           ELSE \E t \in TotalAmounts(promo, Subtotal(c.items)) :
                    Goto(p, "chk_create",
                         [r EXCEPT !.cart_id = c._id, !.items = c.items, !.total = t])
    /\ addSum' = ResetSum(p, o)
    /\ UNCHANGED <<cart, order, review, shoeproduct, nextCartId>>

\* create_document("order", order)
ChkCreate(p) ==
    /\ pc[p] = "chk_create"
    /\ order' = CreateDocument(order, NewOrder(Len(order) + 1, req[p].items,
                                               req[p].total, req[p].cart_id, req[p].n))
    /\ Goto(p, "chk_pay", [req[p] EXCEPT !.order_id = Len(order) + 1])
    /\ UNCHANGED <<cart, review, shoeproduct, nextCartId, started, addSum>>

\* db["order"].update_one({"_id": ObjectId(order_id)}, ...)
ChkPay(p) ==
    /\ pc[p] = "chk_pay"
    /\ order' = [order EXCEPT ![req[p].order_id] = PaidOrder(@)]
    /\ Goto(p, "chk_delete", req[p])
    /\ UNCHANGED <<cart, review, shoeproduct, nextCartId, started, addSum>>

\* db["cart"].delete_one({"_id": cart["_id"]})
ChkDelete(p) ==
    /\ pc[p] = "chk_delete"
    /\ cart' = DeleteCartById(cart, req[p].cart_id)
    /\ Respond(p, req[p], 200)
    /\ UNCHANGED <<order, review, shoeproduct, nextCartId, started, addSum>>

(***************************************************************************)
(* create_review                                                           *)
(***************************************************************************)
\* Review.rating: Field(..., ge=1, le=5)
ValidRating(x) == 1 <= x /\ x <= 5

\* the ratings of the reviews of product pid, in natural order
RatingsOf(coll, pid) ==
    LET hits == SelectSeq(coll, LAMBDA d : d.product_id = pid)
    IN  [i \in 1..Len(hits) |-> hits[i].rating]

\* round(sum(ratings) / len(ratings), 2), in hundredths
Averages(ratings) == RoundDivSet(SumSeq(ratings) * 100, Len(ratings))

\* the request arrives, the product is looked up and Review(...) is validated
RevFind(p, pid, rating, lim) ==
    /\ CanBegin(p, lim)
    /\ started' = started + 1
    /\ LET r == [Idle EXCEPT !.kind = "review", !.n = started + 1,
                             !.item = [NoItem EXCEPT !.product_id = pid], !.rating = rating]
       IN  IF ~ValidObjectId(pid) THEN Respond(p, r, 400)
           ELSE IF pid \notin DOMAIN shoeproduct THEN Respond(p, r, 404)
           ELSE IF ~ValidRating(rating) THEN Respond(p, r, 500)
           ELSE Goto(p, "rev_create", r)
    /\ UNCHANGED <<cart, order, review, shoeproduct, nextCartId, addSum>>

\* create_document("review", review)
RevCreate(p) ==
    /\ pc[p] = "rev_create"
    /\ review' = CreateDocument(review, [product_id |-> req[p].item.product_id,
                                        rating |-> req[p].rating])
    /\ Goto(p, "rev_list", req[p])
    /\ UNCHANGED <<cart, order, shoeproduct, nextCartId, started, addSum>>

\* rlist = list(db["review"].find({"product_id": ...})) and the summary of it
RevList(p) ==
    /\ pc[p] = "rev_list"
    /\ LET rs == RatingsOf(review, req[p].item.product_id)
       IN  IF rs = <<>> THEN Respond(p, req[p], 200)
           ELSE \E a \in Averages(rs) :
                    Goto(p, "rev_update", [req[p] EXCEPT !.total = a, !.count = Len(rs)])
    /\ UNCHANGED <<cart, order, review, shoeproduct, nextCartId, started, addSum>>

\* db["shoeproduct"].update_one(..., {"$set": {"rating": {...}}})
RevUpdate(p) ==
    /\ pc[p] = "rev_update"
    /\ shoeproduct' = [shoeproduct EXCEPT ![req[p].item.product_id] =
                           [average |-> req[p].total, count |-> req[p].count]]
    /\ Respond(p, req[p], 200)
    /\ UNCHANGED <<cart, order, review, nextCartId, started, addSum>>

(***************************************************************************)
(* Specifications.                                                         *)
(***************************************************************************)
\* the cart and checkout handlers, their datastore calls interleaved
Next ==
    \E p \in Procs :
        \/ \E o \in Owners, item \in ConcItems : AddFind(p, o, item, MaxReqs)
        \/ AddCreate(p)
        \/ AddUpdate(p)
        \/ \E o \in Owners, k \in ConcKeys : RemFind(p, o, k, MaxReqs)
        \/ RemUpdate(p)
        \/ \E o \in Owners : ClearCart(p, o, MaxReqs)
        \/ \E o \in Owners : GetCart(p, o, MaxReqs)
        \/ \E o \in Owners, promo \in ConcPromos : ChkFind(p, o, promo, MaxReqs)
        \/ ChkCreate(p)
        \/ ChkPay(p)
        \/ ChkDelete(p)

Spec == Init /\ [][Next]_vars

\* the same handlers, one request at a time
NextSeq ==
    \/ \E o \in Owners, item \in CartItems : AddFind(SeqProc, o, item, MaxSeqReqs)
    \/ AddCreate(SeqProc)
    \/ AddUpdate(SeqProc)
    \/ \E o \in Owners, k \in ValidKeys : RemFind(SeqProc, o, k, MaxSeqReqs)
    \/ RemUpdate(SeqProc)
    \/ \E o \in Owners : ClearCart(SeqProc, o, MaxSeqReqs)
    \/ \E o \in Owners : GetCart(SeqProc, o, MaxSeqReqs)
    \/ \E o \in Owners, promo \in PromoInputs : ChkFind(SeqProc, o, promo, MaxSeqReqs)
    \/ ChkCreate(SeqProc)
    \/ ChkPay(SeqProc)
    \/ ChkDelete(SeqProc)

SpecSeq == Init /\ [][NextSeq]_vars

\* create_review requests, their datastore calls interleaved
NextReview ==
    \E p \in Procs :
        \/ \E pid \in ReviewPids, rating \in Ratings : RevFind(p, pid, rating, MaxReviews)
        \/ RevCreate(p)
        \/ RevList(p)
        \/ RevUpdate(p)

SpecReview == Init /\ [][NextReview]_vars

(***************************************************************************)
(* Properties.                                                             *)
(***************************************************************************)
CartsOf(o) == {i \in 1..Len(cart) : cart[i].owner = o}
LinesOf(items, k) == {i \in 1..Len(items) : items[i].product_id = k[1] /\ items[i].size = k[2]}
Began(p) == req'[p].n # req[p].n

\* C1: after adds of one (product_id, size) made one after another for an owner,
\* starting from a cart (or no cart) without that pair and with no remove, clear
\* or checkout in between, the owner's cart has exactly one line of the pair and
\* its qty is the sum of the quantities added.
C1_MergedSum ==
    \A o \in Owners, k \in ValidKeys :
        addSum[o][k].on =>
            LET c == FindCart(o)
            IN  /\ Cardinality(CartsOf(o)) = 1
                /\ Cardinality(LinesOf(c.items, k)) = 1
                /\ \A i \in LinesOf(c.items, k) : c.items[i].qty = addSum[o][k].sum

\* three adds of 2, -1 and 2 to a cart that held another line first
C1_Witness ==
    \E o \in Owners, k \in ValidKeys :
        /\ addSum[o][k].on /\ addSum[o][k].sum = 3
        /\ pc[SeqProc] = "done" /\ req[SeqProc].kind = "add" /\ req[SeqProc].item.qty = 2
        /\ Len(FindCart(o).items) = 2
        /\ LinesOf(FindCart(o).items, k) = {2}

\* C2: the cart collection holds at most one cart document per
\* (owner_type, owner_id).
C2_OneCartPerOwner == \A o \in Owners : Cardinality(CartsOf(o)) <= 1

\* C3: a checkout that finds no cart, or a cart with no items, fails with 400
\* and changes no collection.
C3_EmptyCheckout ==
    [][\A p \in Procs :
          (Began(p) /\ req'[p].kind = "checkout"
             /\ (CartsOf(req'[p].owner) = {} \/ Len(FindCart(req'[p].owner).items) = 0))
          => /\ pc'[p] = "done" /\ req'[p].status = 400
             /\ cart' = cart /\ order' = order /\ review' = review
             /\ shoeproduct' = shoeproduct]_vars

\* a checkout has failed with 400 on a cart that exists and has no items
C3_Witness ==
    \E p \in Procs :
        /\ pc[p] = "done" /\ req[p].kind = "checkout" /\ req[p].status = 400
        /\ CartsOf(req[p].owner) # {}
        /\ \A i \in CartsOf(req[p].owner) : cart[i].items = <<>>

\* C4: when a checkout has returned successfully, the cart document it read is
\* gone and exactly one order was made by it, with the items read, status
\* "confirmed" and payment status "paid"; the order is "processing" until the
\* payment step and is confirmed before the checkout deletes the cart.
C4_CheckoutOutcome ==
    \A p \in Procs :
        (req[p].kind = "checkout" /\ req[p].order_id # 0) =>
            LET o == order[req[p].order_id]
            IN  /\ Cardinality({i \in 1..Len(order) : order[i].by = req[p].n}) = 1
                /\ o.by = req[p].n /\ o.items = req[p].items /\ o.from = req[p].cart_id
                /\ pc[p] = "chk_pay" =>
                       o.status = "processing" /\ o.payment_status = "pending"
                /\ pc[p] = "chk_delete" =>
                       o.status = "confirmed" /\ o.payment_status = "paid"
                /\ pc[p] = "done" =>
                       /\ req[p].status = 200
                       /\ o.status = "confirmed" /\ o.payment_status = "paid"
                       /\ \A i \in 1..Len(cart) : cart[i]._id # req[p].cart_id

\* a checkout has returned 200
C4_Witness ==
    \E p \in Procs :
        /\ pc[p] = "done" /\ req[p].kind = "checkout" /\ req[p].status = 200
        /\ req[p].order_id \in 1..Len(order)

\* the discount as C5 words it, in 1/1000000: 0 without a code or without an
\* active promocode of exactly that code, else the value or the percentage
ClaimedDiscountE6(code, subtotal) ==
    LET docs == {i \in 1..Len(PromoDocs) : PromoDocs[i].code = code /\ PromoDocs[i].active}
    IN  IF code = NoCode \/ docs = {} THEN 0
        ELSE LET d == PromoDocs[Min(docs)]
             IN  IF d.discount_type = "amount" THEN d.value * 10000
                 ELSE IF d.discount_type = "percentage" THEN subtotal * d.value
                 ELSE 0

\* the checkouts that made an order
Ordered == {p \in AllProcs : req[p].kind = "checkout" /\ req[p].order_id # 0}

\* C5 as claimed: total_amount = max(0, subtotal - discount), not rounded (an
\* empty promo_code is read as no code supplied).
C5_ExactTotal ==
    \A p \in Ordered :
        LET sub == Subtotal(req[p].items)
            code == IF req[p].promo = "" THEN NoCode ELSE req[p].promo
        IN  order[req[p].order_id].total_amount * 10000 =
                Max(0, sub * 10000 - ClaimedDiscountE6(code, sub))

\* C5 amended: total_amount is max(0, subtotal - discount) rounded to 2
\* decimals (an empty promo_code is no code supplied); subtotal 100 gives 90 with
\* percentage 10, 80 with amount 20 and 0 with amount 150; never negative.
C5_RoundedTotal ==
    \A p \in Ordered :
        LET sub == Subtotal(req[p].items)
            code == IF req[p].promo = "" THEN NoCode ELSE req[p].promo
            t == order[req[p].order_id].total_amount
        IN  /\ t \in RoundDivSet(Max(0, sub * 10000 - ClaimedDiscountE6(code, sub)), 10000)
            /\ t >= 0
            /\ (sub = 10000 /\ code = "PCT10") => t = 9000
            /\ (sub = 10000 /\ code = "AMT20") => t = 8000
            /\ (sub = 10000 /\ code = "AMT150") => t = 0

\* an order of subtotal 179.98 with 10 percent off: 161.982 is stored as 161.98
C5_Witness ==
    \E p \in Ordered :
        /\ req[p].promo = "PCT10" /\ Subtotal(req[p].items) = 17998
        /\ order[req[p].order_id].total_amount = 16198

\* C6: for a product with no create_review in progress, rating.count is the
\* number of its reviews and rating.average their mean (to 2 decimals).
C6_RatingSummary ==
    \A x \in Catalog :
        (\A p \in Procs : ~(req[p].kind = "review" /\ req[p].item.product_id = x
                             /\ pc[p] \in {"rev_create", "rev_list", "rev_update"}))
        => LET rs == RatingsOf(review, x)
           IN  /\ shoeproduct[x].count = Len(rs)
               /\ rs # <<>> => shoeproduct[x].average \in RoundDivSet(SumSeq(rs) * 100, Len(rs))

\* C7: from any state of the cart collection, clear_cart(owner) followed at
\* once by get_cart(owner) returns no items and total 0.
C7_ClearThenGet ==
    \A o \in Owners :
        LET v == CartView(DeleteCartOf(cart, o), o)
        IN  v.items = <<>> /\ v.total = 0

\* C8: a remove naming a pair that no line of the owner's cart has returns
\* success and leaves the cart collection as it was; a remove for an owner
\* without a cart fails with 404 and changes nothing.
C8_RemoveMissing ==
    [][/\ (Began(SeqProc) /\ req'[SeqProc].kind = "remove") =>
             IF CartsOf(req'[SeqProc].owner) = {}
             THEN /\ pc'[SeqProc] = "done" /\ req'[SeqProc].status = 404
                  /\ cart' = cart /\ order' = order
             ELSE pc'[SeqProc] = "rem_update" /\ cart' = cart
       /\ (pc[SeqProc] = "rem_update" /\ pc'[SeqProc] = "done"
             /\ LinesOf(FindCart(req[SeqProc].owner).items,
                        <<req[SeqProc].item.product_id, req[SeqProc].item.size>>) = {})
          => /\ req'[SeqProc].status = 200
             /\ cart' = cart /\ order' = order]_vars

\* a remove of a pair the cart lacks has returned 200 on a cart that has lines
C8_Witness ==
    /\ pc[SeqProc] = "done" /\ req[SeqProc].kind = "remove" /\ req[SeqProc].status = 200
    /\ FindCart(req[SeqProc].owner).items # <<>>
    /\ FindCart(req[SeqProc].owner).items = req[SeqProc].items
    /\ \E i \in 1..Len(req[SeqProc].items) :
           req[SeqProc].items[i].product_id = req[SeqProc].item.product_id

\* C9: every line item of every cart and of every order has qty >= 1.
C9_QtyPositive ==
    /\ \A i \in 1..Len(cart) : \A j \in 1..Len(cart[i].items) : cart[i].items[j].qty >= 1
    /\ \A i \in 1..Len(order) : \A j \in 1..Len(order[i].items) : order[i].items[j].qty >= 1

\* C10: no two orders are made from the same cart document.
C10_OneOrderPerCart ==
    \A i, j \in 1..Len(order) : order[i].from = order[j].from => i = j

====
